---- MODULE Spec2Model ----
(***************************************************************************)
(* ReplicateConstantsPass (tensorflow/core/common_runtime/                 *)
(* replicate_constants_pass.cc): small Const nodes whose consumers sit on  *)
(* several hosts are copied once per destination CPU device.               *)
(*                                                                         *)
(* The graph is a set of present nodes and a set of edges.  Every graph    *)
(* mutation of the pass (CopyNode, AddEdge, AddControlEdge, RemoveNode) is *)
(* one step, so the states between two mutations are states of the model.  *)
(***************************************************************************)
EXTENDS Integers, Sequences, FiniteSets, TLC

\* ------------------------------------------------------------------ bounds
NumPreds == 1
MaxFanout == 3
NumRuns == 2

\* ------------------------------------------------------- program constants
kMaxSize == 16
\* stands for std::numeric_limits<int64_t>::max(): above every element count
kInt64Max == 1000000
\* stands for std::numeric_limits<int64_t>::min(): below every element count
kInt64Min == 0 - 1000000

\* ----------------------------------------------------------- device names
\* Device strings, listed in std::string (lexicographic) order, which is the
\* key order of the absl::btree_map device_to_edges.  "" is "no assigned
\* device"; "bogus" does not parse.
cpuA == "/job:a/device:CPU:0"
gpuA == "/job:a/device:GPU:0"
cpuB == "/job:b/device:CPU:0"
gpuB == "/job:b/device:GPU:0"
DeviceOrder == << "", cpuA, gpuA, cpuB, gpuB, "bogus" >>

DeviceRank(d) == CHOOSE i \in 1..Len(DeviceOrder) : DeviceOrder[i] = d

\* DeviceNameUtils::ParseFullName: the parsed (job, type, id), or ok = FALSE.
ParseFullName(d) ==
  CASE d = cpuA -> [ok |-> TRUE, job |-> "a", type |-> "CPU", id |-> 0]
    [] d = gpuA -> [ok |-> TRUE, job |-> "a", type |-> "GPU", id |-> 0]
    [] d = cpuB -> [ok |-> TRUE, job |-> "b", type |-> "CPU", id |-> 0]
    [] d = gpuB -> [ok |-> TRUE, job |-> "b", type |-> "GPU", id |-> 0]
    [] OTHER -> [ok |-> FALSE, job |-> "", type |-> "", id |-> 0]

\* DeviceNameUtils::ParsedNameToString on the names of the model.
ParsedNameToString(p) ==
  CHOOSE d \in {cpuA, gpuA, cpuB, gpuB} :
    LET q == ParseFullName(d) IN q.job = p.job /\ q.type = p.type /\ q.id = p.id

\* DeviceNameUtils::DeviceNameToCpuDeviceName: the CPU device of the same host.
DeviceNameToCpuDeviceName(d) ==
  LET p == ParseFullName(d) IN
  IF ~p.ok THEN [status |-> "MalformedDeviceName", device |-> ""]
  ELSE [status |-> "OK",
        device |-> ParsedNameToString([p EXCEPT !.type = "CPU", !.id = 0])]

\* ------------------------------------------------------------- the graph
\* A graph g is [node, edges, num_node_ids, name_counter]: node maps each
\* present node id to [name, kind, device, shape].
DataEdge(s, so, d, di) ==
  [src |-> s, src_output |-> so, dst |-> d, dst_input |-> di, control |-> FALSE]
ControlEdge(s, d) ==
  [src |-> s, src_output |-> 0, dst |-> d, dst_input |-> 0, control |-> TRUE]

Nodes(g) == DOMAIN g.node
OutEdges(g, n) == {e \in g.edges : e.src = n}
InEdges(g, n) == {e \in g.edges : e.dst = n}
InNodes(g, n) == {e.src : e \in InEdges(g, n)}

\* Graph::NewName(prefix) with prefix = StrCat(name, "/replicate"): the
\* name is kept as the path of counters appended to the original name.
NewName(g, name) == [name EXCEPT !.replicate = Append(@, g.name_counter)]

\* Graph::CopyNode followed by SetUniqueName and set_assigned_device_name.
CopyNode(g, n, d) ==
  [g EXCEPT !.node = (g.num_node_ids :> [g.node[n] EXCEPT !.name = NewName(g, @),
                                                        !.device = d]) @@ @,
            !.num_node_ids = @ + 1,
            !.name_counter = @ + 1]

\* Graph::AddEdge and Graph::AddControlEdge: the edge joins the edge set.
AddEdge(g, e) == [g EXCEPT !.edges = @ \cup {e}]

\* Graph::RemoveNode: the node goes, with every edge from or to it.
RemoveNode(g, n) ==
  [g EXCEPT !.node = [m \in Nodes(g) \ {n} |-> @[m]],
            !.edges = {e \in @ : e.src # n /\ e.dst # n}]

\* ---------------------------------------------------- tests of the pass
IsConstant(g, n) == g.node[n].kind = "Const"

RECURSIVE NumElements(_)
\* TensorShape::num_elements: the product of the dimension sizes.
NumElements(shape) ==
  IF shape = << >> THEN 1 ELSE Head(shape) * NumElements(Tail(shape))

\* Faulty variant: looks at the in-edges.
HasControlIn(g, n) == \E e \in InEdges(g, n) : e.control

HasControlOut(g, n) == \E e \in OutEdges(g, n) : e.control

has_assigned_device_name(g, n) == g.node[n].device # ""

\* Faulty variant: a name that does not parse counts as a CPU.
HasCpuDeviceOrUnparsed(g, n) ==
  LET device == ParseFullName(g.node[n].device) IN
  IF ~device.ok THEN TRUE ELSE device.type = "CPU"

HasCpuDevice(g, n) ==
  LET device == ParseFullName(g.node[n].device) IN
  IF ~device.ok THEN FALSE ELSE device.type = "CPU"

GetDestinationCpuDevice(g, dst) ==
  IF ~has_assigned_device_name(g, dst)
  THEN [status |-> "NoAssignedDevice", device |-> ""]
  ELSE DeviceNameToCpuDeviceName(g.node[dst].device)

\* Faulty variant: a successor whose device does not resolve is left out.
GetSuccessorEdgesIgnoringErrors(g, n) ==
  LET out == {e \in OutEdges(g, n) : GetDestinationCpuDevice(g, e.dst).status = "OK"}
      devs == {GetDestinationCpuDevice(g, e.dst).device : e \in out}
  IN {[status |-> "OK",
       device_to_edges |->
         [d \in devs |->
            {e \in out : GetDestinationCpuDevice(g, e.dst).device = d}]]}

\* The outcomes GetSuccessorEdges can return.  It walks node->out_edges() in
\* the order of the edge set, which the graph's history fixes and the model
\* leaves open: the error returned is that of any failing successor.
GetSuccessorEdges(g, n) ==
  LET out == OutEdges(g, n)
      bad == {e \in out : GetDestinationCpuDevice(g, e.dst).status # "OK"}
      devs == {GetDestinationCpuDevice(g, e.dst).device : e \in out}
  IN IF bad # {}
     THEN {[status |-> GetDestinationCpuDevice(g, e.dst).status,
            device_to_edges |-> << >>] : e \in bad}
     ELSE {[status |-> "OK",
            device_to_edges |->
              [d \in devs |->
                 {e \in out : GetDestinationCpuDevice(g, e.dst).device = d}]]}

\* Faulty variant: >= for >.
TooLargeOrEqual(g, n) == NumElements(g.node[n].shape) >= kMaxSize

TooLarge(g, n) == NumElements(g.node[n].shape) > kMaxSize
AtMostOneSuccessor(g, n) == Cardinality(OutEdges(g, n)) <= 1
\* Faulty variant: < 1 for <= 1.
OnNoDevice(device_to_edges) == Cardinality(DOMAIN device_to_edges) < 1

AllOnSameDevice(device_to_edges) == Cardinality(DOMAIN device_to_edges) <= 1

\* The tests of the loop body that come before the size test, and those
\* between the size test and GetSuccessorEdges.
ReachesSizeTest(g, n) ==
  IsConstant(g, n) /\ ~AtMostOneSuccessor(g, n) /\ ~HasControlOut(g, n)
ReachesGetSuccessorEdges(g, n) ==
  /\ ReachesSizeTest(g, n)
  /\ ~TooLarge(g, n)
  /\ has_assigned_device_name(g, n)
  /\ HasCpuDevice(g, n)

Min(a, b) == IF a < b THEN a ELSE b
Max(a, b) == IF a > b THEN a ELSE b

\* Faulty variant: the maximum is overwritten.
RecordSkippedLast(lo, hi, n) == [min |-> Min(lo, n), max |-> n]

\* The [min_skipped, max_skipped] range after a constant of n elements is
\* skipped by the size test.
RecordSkipped(lo, hi, n) == [min |-> Min(lo, n), max |-> Max(hi, n)]

\* Faulty variant: every replica edge goes to input slot 0.
ReplicaEdgeToSlotZero(c, edge) == DataEdge(c, edge.src_output, edge.dst, 0)

\* The edge ReplicateToEachDevice adds for `edge` of the original constant.
ReplicaEdge(c, edge) == DataEdge(c, edge.src_output, edge.dst, edge.dst_input)

\* Faulty variant: source and destination swapped.
ReplicaControlEdgeReversed(src, c) == ControlEdge(c, src)

\* The control edge it adds for the in-node `src` of the original constant.
ReplicaControlEdge(src, c) == ControlEdge(src, c)

\* NodeIter: the first present node id in i..end-1, else end.
NextNode(g, i, end) ==
  IF \E j \in i..(end - 1) : j \in Nodes(g)
  THEN CHOOSE j \in i..(end - 1) :
         j \in Nodes(g) /\ \A k \in i..(j - 1) : k \notin Nodes(g)
  ELSE end

\* The first key of the btree_map among the devices in ds.
FirstDevice(ds) == CHOOSE d \in ds : \A o \in ds : DeviceRank(d) <= DeviceRank(o)

\* ------------------------------------------------------------ input graphs
\* Node ids in graph->nodes() order: the control predecessors, then two
\* constants, then one consumer per entry of ConsumerDevices.
ConsumerDevices == << cpuA, gpuA, gpuB, "", "bogus" >>
ConstDevices == { cpuA, gpuA, "", "bogus" }
ConstShapes == { << 4, 4 >>, << 17 >>, << 2, 9 >> }

Preds == 0 .. (NumPreds - 1)
Consts == { NumPreds, NumPreds + 1 }
FirstConsumer == NumPreds + Cardinality(Consts)
Consumers == FirstConsumer .. (FirstConsumer + Len(ConsumerDevices) - 1)
ConsumerOn(d) == CHOOSE o \in Consumers : ConsumerDevices[o - FirstConsumer + 1] = d

\* What one constant of the input looks like: its value's shape, its
\* assigned device, the consumers it feeds and its control predecessors.
\* One constant of the graph ranges over all of Profiles, the other over
\* the OtherProfiles: replicable, too large, with a failing consumer, unused.
Profiles ==
  [shape : ConstShapes, device : ConstDevices,
   fan : {S \in SUBSET Consumers : Cardinality(S) <= MaxFanout},
   pred : SUBSET Preds]
OtherProfiles ==
  [shape : { << 4, 4 >>, << 2, 9 >> }, device : { cpuA },
   fan : { {}, {ConsumerOn(gpuA), ConsumerOn(gpuB)}, {ConsumerOn(cpuA), ConsumerOn("")} },
   pred : { {}, Preds }]

OriginalName(n) == [base |-> n, replicate |-> << >>]

\* The graph handed to the pass.  A Const op takes no data input, so the
\* in-edges of a constant are control edges; constant c feeds input slot
\* c - NumPreds of each of its consumers, so that every input slot has one
\* producer; ctl is the set of constant-to-constant control edges.
InputGraph(prof, ctl) ==
  [node |->
     [n \in Preds \cup Consts \cup Consumers |->
        IF n \in Consts
        THEN [name |-> OriginalName(n), kind |-> "Const",
              device |-> prof[n].device, shape |-> prof[n].shape]
        ELSE [name |-> OriginalName(n), kind |-> "Other",
              device |-> IF n \in Consumers
                         THEN ConsumerDevices[n - FirstConsumer + 1]
                         ELSE "",
              shape |-> << >>]],
   edges |->
     UNION {
       {DataEdge(pr[1], 0, pr[2], pr[1] - NumPreds) :
          pr \in {q \in Consts \X Consumers : q[2] \in prof[q[1]].fan}},
       {ControlEdge(pr[1], pr[2]) :
          pr \in {q \in Preds \X Consts : q[1] \in prof[q[2]].pred}},
       {ControlEdge(pr[1], pr[2]) : pr \in ctl} },
   num_node_ids |-> FirstConsumer + Len(ConsumerDevices),
   name_counter |-> 0]

\* ------------------------------------------------------------------ state
VARIABLES
  graph,            \* options.graph
  input,            \* the graph as it was handed to the first run
  run,              \* which invocation of Run this is
  pc,               \* "loop" | "copy" | "add_edge" | "add_control" | "remove" | "done"
  it, end,          \* the NodeIter of `for (Node* node : graph->nodes())`
  status,           \* the Status Run returns
  min_skipped, max_skipped,
  device_to_edges,  \* the btree_map of the current loop iteration
  devices_left,     \* its keys not yet visited by ReplicateToEachDevice
  copy,             \* the current replica
  edges_left,       \* edges of pair.second not yet visited
  in_left           \* nodes of node->in_nodes() not yet visited

vars == << graph, input, run, pc, it, end, status, min_skipped, max_skipped,
           device_to_edges, devices_left, copy, edges_left, in_left >>

locals == << device_to_edges, devices_left, copy, edges_left, in_left >>

NoLocals ==
  /\ device_to_edges = << >>
  /\ devices_left = {}
  /\ copy = -1
  /\ edges_left = {}
  /\ in_left = {}

Init ==
  /\ \E focus \in Consts, f \in Profiles,
        ctl \in {S \in SUBSET {pr \in Consts \X Consts : pr[1] # pr[2]} :
                   Cardinality(S) <= 1} :
       \E other \in [Consts \ {focus} -> OtherProfiles] :
         graph = InputGraph([c \in Consts |-> IF c = focus THEN f ELSE other[c]], ctl)
  /\ input = graph
  /\ run = 1
  /\ pc = "loop"
  /\ end = graph.num_node_ids
  /\ it = NextNode(graph, 0, end)
  /\ status = "OK"
  /\ min_skipped = kInt64Max
  /\ max_skipped = kInt64Min
  /\ NoLocals

\* ---------------------------------------------------------------- actions
\* Faulty variant: RemoveNode inside the loop over the devices.
AfterFirstGroup(left) == "remove"

\* Where ReplicateToEachDevice goes once a replica has its edges: to the
\* next key of the map, or to graph->RemoveNode(node).
AfterGroup(left) == IF left # {} THEN "copy" ELSE "remove"

\* `continue`: one of the tests of the loop body skips the node.  A constant
\* that the size test skips is recorded in [min_skipped, max_skipped].
Continue ==
  /\ pc = "loop" /\ it < end
  /\ \/ /\ ~ReachesSizeTest(graph, it)
        /\ UNCHANGED << min_skipped, max_skipped >>
     \/ /\ ReachesSizeTest(graph, it)
        /\ TooLarge(graph, it)
        /\ LET r == RecordSkipped(min_skipped, max_skipped,
                                  NumElements(graph.node[it].shape))
           IN min_skipped' = r.min /\ max_skipped' = r.max
     \/ /\ ReachesSizeTest(graph, it)
        /\ ~TooLarge(graph, it)
        /\ \/ ~has_assigned_device_name(graph, it)
           \/ ~HasCpuDevice(graph, it)
           \/ \E r \in GetSuccessorEdges(graph, it) :
                r.status = "OK" /\ AllOnSameDevice(r.device_to_edges)
        /\ UNCHANGED << min_skipped, max_skipped >>
  /\ it' = NextNode(graph, it + 1, end)
  /\ UNCHANGED << graph, input, run, pc, end, status, locals >>

\* TF_RETURN_IF_ERROR(GetSuccessorEdges(node, device_to_edges)) returns.
Abort ==
  /\ pc = "loop" /\ it < end
  /\ ReachesGetSuccessorEdges(graph, it)
  /\ \E r \in GetSuccessorEdges(graph, it) :
       /\ r.status # "OK"
       /\ status' = r.status
  /\ pc' = "done"
  /\ UNCHANGED << graph, input, run, it, end, min_skipped, max_skipped, locals >>

\* Every test passed: ReplicateToEachDevice(graph, node, device_to_edges).
BeginReplicate ==
  /\ pc = "loop" /\ it < end
  /\ ReachesGetSuccessorEdges(graph, it)
  /\ \E r \in GetSuccessorEdges(graph, it) :
       /\ r.status = "OK"
       /\ ~AllOnSameDevice(r.device_to_edges)
       /\ device_to_edges' = r.device_to_edges
       /\ devices_left' = DOMAIN r.device_to_edges
  /\ pc' = "copy"
  /\ UNCHANGED << graph, input, run, it, end, status, min_skipped, max_skipped,
                  copy, edges_left, in_left >>

\* Node* copy = graph->CopyNode(node); SetUniqueName; set_assigned_device_name.
CopyStep ==
  /\ pc = "copy"
  /\ LET device == FirstDevice(devices_left) IN
       /\ graph' = CopyNode(graph, it, device)
       /\ copy' = graph.num_node_ids
       /\ edges_left' = device_to_edges[device]
       /\ devices_left' = devices_left \ {device}
  /\ pc' = "add_edge"
  /\ UNCHANGED << input, run, it, end, status, min_skipped, max_skipped,
                  device_to_edges, in_left >>

\* graph->AddEdge(copy, edge->src_output(), edge->dst(), edge->dst_input()).
AddEdgeStep ==
  /\ pc = "add_edge"
  /\ \E edge \in edges_left :
       /\ graph' = AddEdge(graph, ReplicaEdge(copy, edge))
       /\ edges_left' = edges_left \ {edge}
       /\ IF edges_left' # {}
          THEN pc' = "add_edge" /\ UNCHANGED in_left
          ELSE /\ in_left' = InNodes(graph, it)
               /\ pc' = IF in_left' # {} THEN "add_control"
                        ELSE AfterGroup(devices_left)
  /\ UNCHANGED << input, run, it, end, status, min_skipped, max_skipped,
                  device_to_edges, devices_left, copy >>

\* graph->AddControlEdge(src, copy, true).
AddControlEdgeStep ==
  /\ pc = "add_control"
  /\ \E src \in in_left :
       /\ graph' = AddEdge(graph, ReplicaControlEdge(src, copy))
       /\ in_left' = in_left \ {src}
       /\ pc' = IF in_left' # {} THEN "add_control" ELSE AfterGroup(devices_left)
  /\ UNCHANGED << input, run, it, end, status, min_skipped, max_skipped,
                  device_to_edges, devices_left, copy, edges_left >>

\* Faulty variant: the node goes, its in-edges stay.
RemoveStepLeavingInEdges ==
  /\ pc = "remove"
  /\ graph' = [graph EXCEPT !.node = [m \in Nodes(graph) \ {it} |-> @[m]],
                            !.edges = {e \in @ : e.src # it}]
  /\ it' = NextNode(graph', it + 1, end)
  /\ pc' = "loop"
  /\ device_to_edges' = << >>
  /\ devices_left' = {}
  /\ copy' = -1
  /\ edges_left' = {}
  /\ in_left' = {}
  /\ UNCHANGED << input, run, end, status, min_skipped, max_skipped >>

\* graph->RemoveNode(node); the loop goes on with the next node.
RemoveStep ==
  /\ pc = "remove"
  /\ graph' = RemoveNode(graph, it)
  /\ it' = NextNode(graph', it + 1, end)
  /\ pc' = "loop"
  /\ device_to_edges' = << >>
  /\ devices_left' = {}
  /\ copy' = -1
  /\ edges_left' = {}
  /\ in_left' = {}
  /\ UNCHANGED << input, run, end, status, min_skipped, max_skipped >>

\* The loop is over: Run logs the skipped range and returns OkStatus().
Return ==
  /\ pc = "loop" /\ it = end
  /\ pc' = "done"
  /\ UNCHANGED << graph, input, run, it, end, status, min_skipped, max_skipped,
                  locals >>

\* The pass is run again on the graph it returned.
RunAgain ==
  /\ pc = "done" /\ status = "OK" /\ run < NumRuns
  /\ run' = run + 1
  /\ pc' = "loop"
  /\ end' = graph.num_node_ids
  /\ it' = NextNode(graph, 0, end')
  /\ min_skipped' = kInt64Max
  /\ max_skipped' = kInt64Min
  /\ UNCHANGED << graph, input, status, locals >>

Next ==
  \/ Continue
  \/ Abort
  \/ BeginReplicate
  \/ CopyStep
  \/ AddEdgeStep
  \/ AddControlEdgeStep
  \/ RemoveStep
  \/ Return
  \/ RunAgain

Spec == Init /\ [][Next]_vars

\* ------------------------------------------------------------- properties
DataOut(g, n) == {e \in OutEdges(g, n) : ~e.control}
ControlOut(g, n) == {e \in OutEdges(g, n) : e.control}

\* The nodes of g named <name>/replicate/_<k>.
ReplicasOf(g, name) ==
  {r \in Nodes(g) :
     /\ g.node[r].name.base = name.base
     /\ Len(g.node[r].name.replicate) = Len(name.replicate) + 1
     /\ SubSeq(g.node[r].name.replicate, 1, Len(name.replicate)) = name.replicate}

\* The constants of the input that the pass has replicated and removed.
Replicated == Nodes(input) \ Nodes(graph)

\* The eligibility tests of the pass, in its order: a Constant, with more
\* than one out-edge, none of them a control edge (tests 1-3); of at most 16
\* elements, with an assigned device (tests 4-5); whose type is CPU (test 6).
Tests1to3(g, n) ==
  /\ g.node[n].kind = "Const"
  /\ Cardinality(OutEdges(g, n)) > 1
  /\ ControlOut(g, n) = {}
Tests1to5(g, n) ==
  /\ Tests1to3(g, n)
  /\ NumElements(g.node[n].shape) <= 16
  /\ g.node[n].device # ""
Tests1to6(g, n) ==
  /\ Tests1to5(g, n)
  /\ ParseFullName(g.node[n].device).ok
  /\ ParseFullName(g.node[n].device).type = "CPU"

\* The destination CPU devices of the data consumers of n in g.
DestinationDevices(g, n) ==
  {GetDestinationCpuDevice(g, e.dst).device : e \in DataOut(g, n)}

\* C1: once a constant has been replicated, each (destination node, input
\* slot) it fed is fed by exactly one edge, which leaves a replica of the
\* constant at the same output slot, and the replicas have as many outgoing
\* data edges as the constant had.
C1_FanOutPreserved ==
  \A n \in Replicated :
    LET reps == ReplicasOf(graph, input.node[n].name)
        orig == DataOut(input, n)
    IN /\ \A e \in orig :
            LET feeders == {f \in graph.edges :
                              ~f.control /\ f.dst = e.dst /\ f.dst_input = e.dst_input}
            IN /\ Cardinality(feeders) = 1
               /\ \A f \in feeders : f.src \in reps /\ f.src_output = e.src_output
       /\ Cardinality({f \in graph.edges : ~f.control /\ f.src \in reps})
            = Cardinality(orig)

\* A replicated constant with three consumers, two of them fed by one replica.
C1_Witness ==
  \E n \in Replicated :
    /\ Cardinality(DataOut(input, n)) = 3
    /\ \E r \in ReplicasOf(graph, input.node[n].name) :
         Cardinality(DataOut(graph, r)) = 2

\* C9: in every state of the pass every edge of the graph joins two nodes
\* that are present in the graph.
C9_NoDanglingEdges ==
  \A e \in graph.edges : e.src \in Nodes(graph) /\ e.dst \in Nodes(graph)

\* A second constant is being rewired after a first one was removed.
C9_Witness == Replicated # {} /\ pc = "add_control"

\* C10 as claimed: when RemoveNode is called on the constant, no edge of the
\* graph references it.
C10_NoEdgeAtRemoval ==
  pc = "remove" => InEdges(graph, it) \cup OutEdges(graph, it) = {}

\* C10 as amended: when RemoveNode is called on the constant, its original
\* edges are all still attached, its out-edges are data edges and each has
\* its duplicate leaving a replica into the same destination slot.
C10_DuplicatedAtRemoval ==
  pc = "remove" =>
    /\ OutEdges(graph, it) = OutEdges(input, it)
    /\ InEdges(graph, it) = InEdges(input, it)
    /\ \A e \in OutEdges(graph, it) :
         /\ ~e.control
         /\ \E r \in ReplicasOf(graph, graph.node[it].name) :
              DataEdge(r, e.src_output, e.dst, e.dst_input) \in graph.edges

\* RemoveNode is about to run on a constant that has a control predecessor.
C10_Witness ==
  pc = "remove" /\ InEdges(graph, it) # {} /\ Cardinality(OutEdges(graph, it)) = 3

\* C2: a second run of the pass on the graph a successful run returned adds
\* and removes no node and no edge.
C2_SecondRunChangesNothing ==
  [][run' >= 2 => graph'.node = graph.node /\ graph'.edges = graph.edges]_vars

\* The second run has ended on a graph that holds replicas with several
\* consumers each.
C2_Witness ==
  /\ run = 2 /\ pc = "done"
  /\ \E n \in Replicated :
       \E r \in ReplicasOf(graph, input.node[n].name) :
         Cardinality(DataOut(graph, r)) = 2

\* The statuses GetDestinationCpuDevice fails with over the consumers of n.
ResolverErrors(g, n) ==
  {GetDestinationCpuDevice(g, e.dst).status : e \in OutEdges(g, n)} \ {"OK"}

\* C3: when the resolver fails for a consumer of a constant that passed the
\* tests before GetSuccessorEdges, Run returns one of the consumers' errors
\* with the graph as it was when the constant was reached (earlier rewrites
\* kept, no replica made), and the pass takes no further step.
C3_AbortLeavesGraph ==
  [][/\ (/\ pc = "loop" /\ it < end
         /\ Tests1to6(graph, it)
         /\ ResolverErrors(graph, it) # {})
        => /\ status' \in ResolverErrors(graph, it)
           /\ pc' = "done"
           /\ graph' = graph
     /\ status # "OK" => FALSE]_vars

\* Run returned an error after an earlier constant had been replicated.
C3_Witness ==
  /\ status = "NoAssignedDevice" /\ pc = "done"
  /\ Replicated # {}
  /\ Tests1to6(graph, it)

\* A constant that passes the tests up to "has an assigned device" and whose
\* assigned device does not parse.
MalformedConstant(g, n) ==
  /\ Tests1to5(g, n)
  /\ ~ParseFullName(g.node[n].device).ok

\* C4 as claimed: once the pass has dealt with such a constant it has aborted
\* with the malformed-device-name error.
C4_MalformedAborts ==
  \A c \in Nodes(graph) :
    (MalformedConstant(graph, c) /\ (it > c \/ pc = "done"))
      => status = "MalformedDeviceName"

\* C4 as amended: such a constant is skipped: the loop goes on to the next
\* node with the status and the graph unchanged.
C4_MalformedSkipped ==
  [][(pc = "loop" /\ it < end /\ MalformedConstant(graph, it))
       => /\ status' = status
          /\ graph' = graph
          /\ pc' = "loop"
          /\ it' = NextNode(graph, it + 1, end)]_vars

\* The loop has passed such a constant, whose consumers are on two hosts.
C4_Witness ==
  \E c \in Nodes(graph) :
    /\ MalformedConstant(graph, c)
    /\ it > c /\ run = 1 /\ status = "OK"
    /\ Cardinality(DestinationDevices(graph, c)) >= 2

EligibleButForSize(g, n) ==
  /\ Tests1to3(g, n)
  /\ g.node[n].device # ""
  /\ ParseFullName(g.node[n].device).ok
  /\ ParseFullName(g.node[n].device).type = "CPU"
  /\ ResolverErrors(g, n) = {}
  /\ Cardinality(DestinationDevices(g, n)) >= 2

\* C6: a constant of the input that meets every other rule has been
\* replicated, once the loop has passed it, if and only if it has at most 16
\* elements; when it has more it is still in the graph and its element count
\* lies in the skipped range.
C6_Threshold ==
  \A c \in Nodes(input) :
    EligibleButForSize(input, c) =>
      LET E == NumElements(input.node[c].shape) IN
      /\ (it > c \/ run >= 2) => (c \in Replicated <=> E <= 16)
      /\ (it > c /\ E > 16) => (min_skipped <= E /\ E <= max_skipped)

\* One constant of 16 elements was replicated and one of 17 was skipped and
\* recorded.
C6_Witness ==
  /\ run = 1 /\ pc = "done"
  /\ min_skipped = 17 /\ max_skipped = 17
  /\ \E c \in Replicated :
       EligibleButForSize(input, c) /\ NumElements(input.node[c].shape) = 16
  /\ \E c \in Nodes(input) \cap Nodes(graph) :
       EligibleButForSize(input, c) /\ NumElements(input.node[c].shape) = 17

\* C7 as claimed: after the pass a constant that had a control out-edge is in
\* the graph with exactly its original in- and out-edges and has no replica.
C7_ControlOutUntouched ==
  pc = "done" =>
    \A c \in Nodes(input) :
      (input.node[c].kind = "Const" /\ ControlOut(input, c) # {}) =>
        /\ c \in Nodes(graph)
        /\ ReplicasOf(graph, input.node[c].name) = {}
        /\ InEdges(graph, c) = InEdges(input, c)
        /\ OutEdges(graph, c) = OutEdges(input, c)

\* The control out-edges of c after the pass: the original ones, with an
\* edge into a constant that was replicated replaced by one edge into each
\* of its replicas.
RedirectedControlOut(c) ==
  UNION {IF e.dst \in Nodes(graph)
         THEN {e}
         ELSE {ControlEdge(c, r) : r \in ReplicasOf(graph, input.node[e.dst].name)}
         : e \in ControlOut(input, c)}

\* C7 as amended: after the pass a constant that had a control out-edge is
\* in the graph and has no replica; its in-edges and its data out-edges are
\* the original ones, and its control out-edges are the original ones
\* redirected to the replicas of the constants that were replicated.
C7_ControlOutNotReplicated ==
  pc = "done" =>
    \A c \in Nodes(input) :
      (input.node[c].kind = "Const" /\ ControlOut(input, c) # {}) =>
        /\ c \in Nodes(graph)
        /\ ReplicasOf(graph, input.node[c].name) = {}
        /\ InEdges(graph, c) = InEdges(input, c)
        /\ DataOut(graph, c) = DataOut(input, c)
        /\ ControlOut(graph, c) = RedirectedControlOut(c)

\* The pass ended; a small CPU constant with consumers on two hosts and a
\* control out-edge into a constant that was replicated is still there.
C7_Witness ==
  /\ pc = "done" /\ status = "OK"
  /\ \E c \in Nodes(input) \cap Nodes(graph) :
       /\ input.node[c].kind = "Const" /\ ControlOut(input, c) # {}
       /\ NumElements(input.node[c].shape) <= 16
       /\ input.node[c].device = cpuA
       /\ ResolverErrors(input, c) = {}
       /\ Cardinality(DestinationDevices(input, c)) >= 2
       /\ \E e \in ControlOut(input, c) : e.dst \in Replicated

\* The element counts of the constants of g with more than kMaxSize elements
\* among those satisfying P.
LargeCounts(g, P(_, _)) ==
  {NumElements(g.node[n].shape) :
     n \in {m \in Nodes(g) : g.node[m].kind = "Const" /\ P(g, m)
                             /\ NumElements(g.node[m].shape) > kMaxSize}}

SetMin(S) == CHOOSE x \in S : \A y \in S : x <= y
SetMax(S) == CHOOSE x \in S : \A y \in S : x >= y

\* [min_skipped, max_skipped] is the range of S, and unset if S is empty.
RangeIs(S) ==
  IF S = {} THEN min_skipped = kInt64Max /\ max_skipped = kInt64Min
  ELSE min_skipped = SetMin(S) /\ max_skipped = SetMax(S)

\* C8 as claimed: when a run completes, the skipped range is that of the
\* constants that only the size threshold kept from being replicated.
C8_RangeOfSolelySkipped ==
  (pc = "done" /\ status = "OK") => RangeIs(LargeCounts(graph, EligibleButForSize))

\* C8 as amended: when a run completes, the skipped range is that of the
\* constants with more than 16 elements that reached the size test (more
\* than one out-edge, no control out-edge), whatever the later tests would
\* have said; it is unset when there is none, and no constant with more than
\* 16 elements is replicated.
C8_RangeOfSizeSkipped ==
  /\ (pc = "done" /\ status = "OK") => RangeIs(LargeCounts(graph, Tests1to3))
  /\ \A c \in Replicated : NumElements(input.node[c].shape) <= kMaxSize

\* A run completed with the range [17, 18], of which the constant of 17
\* elements has no assigned device.
C8_Witness ==
  /\ pc = "done" /\ status = "OK"
  /\ min_skipped = 17 /\ max_skipped = 18
  /\ \E c \in Nodes(graph) :
       /\ Tests1to3(graph, c)
       /\ graph.node[c].device = ""
       /\ NumElements(graph.node[c].shape) = 17

====
